---- MODULE Spec2Model ----
(***************************************************************************)
(* serve.py: a static file server on a fixed port that adds the two        *)
(* cross-origin isolation headers to every response, tries to open a       *)
(* browser, and handles Ctrl-C and "port in use" at start-up.              *)
(*                                                                         *)
(* Several instances of the script (Procs) run on one machine and compete  *)
(* for the fixed port.  Each instance is a sequential program whose        *)
(* position is pc[p]; clients open connections to whichever instance       *)
(* listens.  The calls into socketserver / http.server are modelled by     *)
(* their documented behaviour (TCPServer is synchronous, handle_error      *)
(* reports and continues, the constructor closes the socket when bind      *)
(* fails, the context manager closes the server).                          *)
(*                                                                         *)
(* Environment assumptions: a POSIX platform (strerror texts); the port    *)
(* is only ever taken by instances of this script; SIGINT is delivered     *)
(* while the program is at lines 21-36 (an interrupt on entry to line 36   *)
(* is one inside serve_forever), not while an except clause of lines 37-45 *)
(* is already running.                                                     *)
(***************************************************************************)
EXTENDS Integers, Sequences, FiniteSets

\* ---------------------------------------------------------------- bounds
NumProcs == 2
MaxConns == 2

Procs == 1..NumProcs
Conns == 1..MaxConns

\* ------------------------------------------------------------- constants
PORT == 8080

VARIABLES
  pc,            \* pc[p]: the statement instance p is at
  sock,          \* sock[p]: "none" | "bound" | "closed", the listening socket of p
  created,       \* created[p]: how many listening sockets p has created
  exc,           \* exc[p]: the exception propagating in p, or NoExc
  term,          \* term[p]: how p terminated ("running" while it has not)
  out,           \* out[p]: the lines p printed on stdout
  log,           \* log[p]: the start-up steps p has taken, in order
  sigint,        \* sigint[p]: the statement at which p last received SIGINT, or "none"
  bindErr,       \* bindErr[p]: "none" | "ok" | the errno of the failed bind
  conn,          \* conn[c]: a client connection
  faults         \* faults[p]: how many handler errors p's serve loop has seen

vars == <<pc, sock, created, exc, term, out, log, sigint, bindErr, conn, faults>>

\* ------------------------------------------------------------ exceptions
NoExc == [type |-> "None", msg |-> <<>>]

KeyboardInterrupt == [type |-> "KeyboardInterrupt", msg |-> <<>>]

\* strerror(errno) on POSIX, as a sequence of words
StrError(errno) ==
  CASE errno = "EADDRINUSE" -> <<"Address", "already", "in", "use">>
    [] errno = "EACCES"     -> <<"Permission", "denied">>
    [] errno = "EIO"        -> <<"Input/output", "error">>
    [] OTHER                -> <<"Unknown", "error">>

ErrnoWord(errno) ==
  CASE errno = "EADDRINUSE" -> "98]"
    [] errno = "EACCES"     -> "13]"
    [] errno = "EIO"        -> "5]"
    [] OTHER                -> "0]"

\* str(e) of OSError(errno, strerror): "[Errno N] text"
OSError(errno) ==
  [type |-> "OSError", msg |-> <<"[Errno", ErrnoWord(errno)>> \o StrError(errno)]

BrowserError == [type |-> "Error", msg |-> <<"could", "not", "locate", "runnable", "browser">>]

\* `needle in hay` on strings, word by word
Contains(needle, hay) ==
  \E i \in 0..(Len(hay) - Len(needle)) :
    SubSeq(hay, i + 1, i + Len(needle)) = needle

\* isinstance(e, Exception): KeyboardInterrupt and SystemExit are not
IsException(e) == e.type \in {"OSError", "Error"}

Running == [how |-> "running", code |-> 0, exc |-> NoExc]

SysExit(code) == [how |-> "sys_exit", code |-> code, exc |-> NoExc]

\* an exception no clause catches: traceback; status 1, or death by SIGINT (130)
Uncaught(e) ==
  [how |-> "uncaught", code |-> IF e.type = "KeyboardInterrupt" THEN 130 ELSE 1, exc |-> e]

Line(text, args) == [text |-> text, args |-> args]

\* ----------------------------------------------------------- connections
NoResp == [status |-> 0, headers |-> <<>>]

\* state: "new" | "queued" (in the listener's backlog) | "active" (accepted, its
\* handler running) | "closed"; sent: the request has reached the handler;
\* resp: the status line and headers the handler has sent
NewConn == [state |-> "new", srv |-> 0, sent |-> FALSE, resp |-> NoResp]

Closed == [state |-> "closed", srv |-> 0, sent |-> FALSE, resp |-> NoResp]

\* what a request with a well-formed HTTP/1.x request line asks for: a file
\* under the root (200), a path that does not exist (404), a method the
\* handler does not implement (501)
Targets == {"file", "missing", "post"}

\* the other instances' listeners: the port is taken when one of them is bound
PortHeld(p) == \E q \in Procs \ {p} : sock[q] = "bound"

ActiveOf(cn, p) == {c \in Conns : cn[c].state = "active" /\ cn[c].srv = p}

Active(p) == ActiveOf(conn, p)

Queued(p) == {c \in Conns : conn[c].state = "queued" /\ conn[c].srv = p}

Init ==
  /\ pc = [p \in Procs |-> "chdir"]
  /\ sock = [p \in Procs |-> "none"]
  /\ created = [p \in Procs |-> 0]
  /\ exc = [p \in Procs |-> NoExc]
  /\ term = [p \in Procs |-> Running]
  /\ out = [p \in Procs |-> <<>>]
  /\ log = [p \in Procs |-> <<>>]
  /\ sigint = [p \in Procs |-> "none"]
  /\ bindErr = [p \in Procs |-> "none"]
  /\ conn = [c \in Conns |-> NewConn]
  /\ faults = [p \in Procs |-> 0]

\* ---------------------------------------------------------------- start-up
\* line 21: os.chdir(...)
Chdir(p) ==
  /\ pc[p] = "chdir"
  /\ pc' = [pc EXCEPT ![p] = "bind"]
  /\ log' = [log EXCEPT ![p] = Append(@, "chdir")]
  /\ UNCHANGED <<sock, created, exc, term, out, sigint, bindErr, conn, faults>>

\* line 24, bind succeeded: the with body is entered
BindOk(p) ==
  /\ pc[p] = "bind"
  /\ ~PortHeld(p)
  /\ sock' = [sock EXCEPT ![p] = "bound"]
  /\ created' = [created EXCEPT ![p] = @ + 1]
  /\ bindErr' = [bindErr EXCEPT ![p] = "ok"]
  /\ log' = [log EXCEPT ![p] = Append(@, "bind")]
  /\ pc' = [pc EXCEPT ![p] = "status"]
  /\ UNCHANGED <<exc, term, out, sigint, conn, faults>>

\* a variant in which a failed bind does not leave the with statement
BindFailFallsThrough(p, errno) ==
  /\ pc[p] = "bind"
  /\ (errno = "EADDRINUSE") <=> PortHeld(p)
  /\ sock' = [sock EXCEPT ![p] = "closed"]
  /\ created' = [created EXCEPT ![p] = @ + 1]
  /\ bindErr' = [bindErr EXCEPT ![p] = errno]
  /\ log' = [log EXCEPT ![p] = Append(@, "bind")]
  /\ pc' = [pc EXCEPT ![p] = "status"]
  /\ UNCHANGED <<exc, term, out, sigint, conn, faults>>

\* line 24, bind failed: TCPServer.__init__ closes the socket and re-raises
BindFail(p, errno) ==
  /\ pc[p] = "bind"
  /\ (errno = "EADDRINUSE") <=> PortHeld(p)
  /\ sock' = [sock EXCEPT ![p] = "closed"]
  /\ created' = [created EXCEPT ![p] = @ + 1]
  /\ bindErr' = [bindErr EXCEPT ![p] = errno]
  /\ log' = [log EXCEPT ![p] = Append(@, "bind")]
  /\ exc' = [exc EXCEPT ![p] = OSError(errno)]
  /\ pc' = [pc EXCEPT ![p] = "except"]
  /\ UNCHANGED <<term, out, sigint, conn, faults>>

BindErrnos == {"EADDRINUSE", "EACCES"}

\* line 24: socketserver.TCPServer(("", PORT), CORSRequestHandler)
TCPServer(p) == BindOk(p) \/ \E errno \in BindErrnos : BindFail(p, errno)

StatusLines ==
  << Line("Server starting at http://localhost", <<PORT>>),
     Line("Serving files from cwd", <<>>),
     Line("Open http://localhost in your browser to play", <<PORT>>),
     Line("Press Ctrl+C to stop the server", <<>>) >>

\* lines 25-28
PrintStatus(p) ==
  /\ pc[p] = "status"
  /\ out' = [out EXCEPT ![p] = @ \o StatusLines]
  /\ log' = [log EXCEPT ![p] = Append(@, "status")]
  /\ pc' = [pc EXCEPT ![p] = "browser"]
  /\ UNCHANGED <<sock, created, exc, term, sigint, bindErr, conn, faults>>

\* a variant: `except Exception:` lets KeyboardInterrupt through
BrowserExceptException(e) == e.type \in {"OSError", "Error"}

\* line 33: a bare `except:` catches every BaseException
BrowserExcept(e) == TRUE

\* lines 31-34: the try statement around webbrowser.open, which returned
\* (raised = NoExc) or raised
TryBrowser(p, raised) ==
  /\ log' = [log EXCEPT ![p] = Append(@, "browser")]
  /\ IF raised = NoExc \/ BrowserExcept(raised)
       THEN /\ pc' = [pc EXCEPT ![p] = "serve"]
            /\ exc' = exc
       ELSE /\ pc' = [pc EXCEPT ![p] = "with_exit"]
            /\ exc' = [exc EXCEPT ![p] = raised]

\* webbrowser.open returns (True or False, the value is discarded) or raises
BrowserOutcomes == {NoExc, BrowserError}

\* lines 31-34
OpenBrowser(p) ==
  /\ pc[p] = "browser"
  /\ \E raised \in BrowserOutcomes : TryBrowser(p, raised)
  /\ UNCHANGED <<sock, created, term, out, sigint, bindErr, conn, faults>>

\* line 36: httpd.serve_forever() is entered
ServeForever(p) ==
  /\ pc[p] = "serve"
  /\ log' = [log EXCEPT ![p] = Append(@, "serve")]
  /\ pc' = [pc EXCEPT ![p] = "serving"]
  /\ UNCHANGED <<sock, created, exc, term, out, sigint, bindErr, conn, faults>>

\* ------------------------------------------------------- request handler
\* BaseHTTPRequestHandler.send_header: append to the handler's header buffer
send_header(self, keyword, value) ==
  [self EXCEPT !.buf = Append(@, <<keyword, value>>)]

\* BaseHTTPRequestHandler.end_headers: the buffer goes out on the wire
super_end_headers(self) == [status |-> self.status, headers |-> self.buf]

\* a variant that adds the isolation headers to successful responses only
end_headers_success_only(self) ==
  IF self.status = 200
    THEN super_end_headers(
           send_header(
             send_header(self, "Cross-Origin-Embedder-Policy", "require-corp"),
             "Cross-Origin-Opener-Policy", "same-origin"))
    ELSE super_end_headers(self)

\* lines 15-18: CORSRequestHandler.end_headers
end_headers(self) ==
  super_end_headers(
    send_header(
      send_header(self, "Cross-Origin-Embedder-Policy", "require-corp"),
      "Cross-Origin-Opener-Policy", "same-origin"))

\* BaseHTTPRequestHandler.send_response: status line, Server and Date headers
send_response(code) ==
  [status |-> code, buf |-> << <<"Server", "SimpleHTTP">>, <<"Date", "now">> >>]

\* BaseHTTPRequestHandler.send_error: an error page
send_error(code) ==
  end_headers(
    send_header(
      send_header(send_response(code), "Connection", "close"),
      "Content-Type", "text/html;charset=utf-8"))

\* SimpleHTTPRequestHandler serving one request: a file under the root, a path
\* that does not exist, an unsupported method
Response(target) ==
  CASE target = "file" ->
         end_headers(
           send_header(
             send_header(send_response(200), "Content-type", "application/octet-stream"),
             "Content-Length", "len"))
    [] target = "missing" -> send_error(404)
    [] OTHER -> send_error(501)

\* ------------------------------------------------------------ serve loop
\* a client connects: the kernel queues the connection on the listener
Connect(c, p) ==
  /\ conn[c].state = "new"
  /\ \A d \in Conns : d < c => conn[d].state # "new"
  /\ sock[p] = "bound"
  /\ conn' = [conn EXCEPT ![c] = [@ EXCEPT !.state = "queued", !.srv = p]]
  /\ UNCHANGED <<pc, sock, created, exc, term, out, log, sigint, bindErr, faults>>

\* the client's request reaches the handler; until then the handler blocks
\* in rfile.readline() (no timeout is set)
ClientSend(c) ==
  /\ conn[c].state = "active"
  /\ ~conn[c].sent
  /\ conn' = [conn EXCEPT ![c].sent = TRUE]
  /\ UNCHANGED <<pc, sock, created, exc, term, out, log, sigint, bindErr, faults>>

\* a variant: a threading server accepts while handlers run
CanAcceptThreaded(p) == TRUE

\* TCPServer (no ThreadingMixIn): the loop is inside _handle_request_noblock
\* until the handler returns, so it accepts only when no handler runs
CanAccept(p) == Active(p) = {}

\* serve_forever: select() reports the listener readable, get_request accepts
Accept(p, c) ==
  /\ pc[p] = "serving"
  /\ c \in Queued(p)
  /\ CanAccept(p)
  /\ conn' = [conn EXCEPT ![c].state = "active"]
  /\ UNCHANGED <<pc, sock, created, exc, term, out, log, sigint, bindErr, faults>>

\* the handler has read the request and sends status line and headers
Respond(p, c) ==
  /\ pc[p] = "serving"
  /\ c \in Active(p)
  /\ conn[c].sent
  /\ conn[c].resp = NoResp
  /\ \E t \in Targets : conn' = [conn EXCEPT ![c].resp = Response(t)]
  /\ UNCHANGED <<pc, sock, created, exc, term, out, log, sigint, bindErr, faults>>

\* the body is written, the handler returns, shutdown_request closes
Finish(p, c) ==
  /\ pc[p] = "serving"
  /\ c \in Active(p)
  /\ conn[c].resp # NoResp
  /\ conn' = [conn EXCEPT ![c] = Closed]
  /\ UNCHANGED <<pc, sock, created, exc, term, out, log, sigint, bindErr, faults>>

\* a variant in which the serve loop does not absorb a handler's exception
ProcessRequestRaisedPropagates(p, c, e) ==
  /\ conn' = [conn EXCEPT ![c] = Closed]
  /\ faults' = [faults EXCEPT ![p] = IF e.type \in {"OSError", "Error"} THEN @ + 1 ELSE @]
  /\ exc' = [exc EXCEPT ![p] = e]
  /\ pc' = [pc EXCEPT ![p] = "with_exit"]

\* a variant in which the serve loop absorbs every BaseException of a handler
ProcessRequestRaisedAbsorbsAll(p, c, e) ==
  /\ conn' = [conn EXCEPT ![c] = Closed]
  /\ faults' = [faults EXCEPT ![p] = @ + 1]
  /\ UNCHANGED <<pc, exc>>

\* _handle_request_noblock when process_request raised e for connection c:
\*   except Exception: handle_error (traceback on stderr); shutdown_request
\*   except:           shutdown_request; raise
ProcessRequestRaised(p, c, e) ==
  /\ conn' = [conn EXCEPT ![c] = Closed]
  /\ IF IsException(e)
       THEN /\ faults' = [faults EXCEPT ![p] = @ + 1]
            /\ UNCHANGED <<pc, exc>>
       ELSE /\ exc' = [exc EXCEPT ![p] = e]
            /\ pc' = [pc EXCEPT ![p] = "with_exit"]
            /\ UNCHANGED faults

\* an error while a request is served: the file cannot be read, the client is gone
HandlerFault(p, c) ==
  /\ pc[p] = "serving"
  /\ c \in Active(p)
  /\ ProcessRequestRaised(p, c, OSError("EIO"))
  /\ UNCHANGED <<sock, created, term, out, log, sigint, bindErr>>

\* ------------------------------------------------------------ interrupts
\* SIGINT during line 21, outside the try statement: nothing catches it
IntChdir(p) ==
  /\ pc[p] = "chdir"
  /\ sigint' = [sigint EXCEPT ![p] = "chdir"]
  /\ term' = [term EXCEPT ![p] = Uncaught(KeyboardInterrupt)]
  /\ pc' = [pc EXCEPT ![p] = "done"]
  /\ UNCHANGED <<sock, created, exc, out, log, bindErr, conn, faults>>

\* SIGINT inside the TCPServer constructor: the with body is never entered
IntBind(p) ==
  /\ pc[p] = "bind"
  /\ sigint' = [sigint EXCEPT ![p] = "bind"]
  /\ exc' = [exc EXCEPT ![p] = KeyboardInterrupt]
  /\ pc' = [pc EXCEPT ![p] = "except"]
  /\ UNCHANGED <<sock, created, term, out, log, bindErr, conn, faults>>

\* SIGINT in the with body at lines 25-28
IntBody(p) ==
  /\ pc[p] = "status"
  /\ sigint' = [sigint EXCEPT ![p] = pc[p]]
  /\ exc' = [exc EXCEPT ![p] = KeyboardInterrupt]
  /\ pc' = [pc EXCEPT ![p] = "with_exit"]
  /\ UNCHANGED <<sock, created, term, out, log, bindErr, conn, faults>>

\* SIGINT while webbrowser.open runs: KeyboardInterrupt is raised inside the try
IntBrowser(p) ==
  /\ pc[p] = "browser"
  /\ sigint' = [sigint EXCEPT ![p] = "browser"]
  /\ TryBrowser(p, KeyboardInterrupt)
  /\ UNCHANGED <<sock, created, term, out, bindErr, conn, faults>>

\* SIGINT inside serve_forever: in select(), or in the handler of a request
IntServing(p) ==
  /\ pc[p] = "serving"
  /\ sigint' = [sigint EXCEPT ![p] = "serving"]
  /\ IF Active(p) = {}
       THEN /\ exc' = [exc EXCEPT ![p] = KeyboardInterrupt]
            /\ pc' = [pc EXCEPT ![p] = "with_exit"]
            /\ UNCHANGED <<conn, faults>>
       ELSE \E c \in Active(p) : ProcessRequestRaised(p, c, KeyboardInterrupt)
  /\ UNCHANGED <<sock, created, term, out, log, bindErr>>

Interrupt(p) == IntChdir(p) \/ IntBind(p) \/ IntBody(p) \/ IntBrowser(p) \/ IntServing(p)

\* -------------------------------------------------------------- unwinding
\* a variant without the context manager: the listener is left open
WithExitNoClose(p) ==
  /\ pc[p] = "with_exit"
  /\ pc' = [pc EXCEPT ![p] = "except"]
  /\ UNCHANGED <<sock, conn, created, exc, term, out, log, sigint, bindErr, faults>>

\* line 24, TCPServer.__exit__ -> server_close(): the listener is closed and
\* the connections still in its backlog are reset
WithExit(p) ==
  /\ pc[p] = "with_exit"
  /\ sock' = [sock EXCEPT ![p] = "closed"]
  /\ conn' = [c \in Conns |->
                IF conn[c].srv = p /\ conn[c].state \in {"queued", "active"}
                  THEN Closed
                  ELSE conn[c]]
  /\ pc' = [pc EXCEPT ![p] = "except"]
  /\ UNCHANGED <<created, exc, term, out, log, sigint, bindErr, faults>>

\* lines 37-39: except KeyboardInterrupt
HandleKeyboardInterrupt(p) ==
  /\ pc[p] = "except"
  /\ exc[p].type = "KeyboardInterrupt"
  /\ out' = [out EXCEPT ![p] = Append(@, Line("Server stopped.", <<>>))]
  /\ term' = [term EXCEPT ![p] = SysExit(0)]
  /\ exc' = [exc EXCEPT ![p] = NoExc]
  /\ pc' = [pc EXCEPT ![p] = "done"]
  /\ UNCHANGED <<sock, created, log, sigint, bindErr, conn, faults>>

\* a variant that looks for another text
IsAddrInUseOtherText(e) == Contains(<<"Address", "in", "use">>, e.msg)

\* a variant that takes every OSError for a port conflict
IsAddrInUseAnyOSError(e) == e.type = "OSError"

\* line 41: "Address already in use" in str(e)
IsAddrInUse(e) == Contains(<<"Address", "already", "in", "use">>, e.msg)

\* lines 40-45: except OSError as e
HandleOSError(p) ==
  /\ pc[p] = "except"
  /\ exc[p].type = "OSError"
  /\ IF IsAddrInUse(exc[p])
       THEN /\ out' = [out EXCEPT ![p] = Append(@, Line("Port is already in use.", <<PORT>>))]
            /\ term' = [term EXCEPT ![p] = SysExit(1)]
            /\ exc' = [exc EXCEPT ![p] = NoExc]
       ELSE /\ term' = [term EXCEPT ![p] = Uncaught(exc[p])]
            /\ UNCHANGED <<out, exc>>
  /\ pc' = [pc EXCEPT ![p] = "done"]
  /\ UNCHANGED <<sock, created, log, sigint, bindErr, conn, faults>>

\* ------------------------------------------------------- specifications
\* the statements of instance p
Run(p) ==
  \/ Chdir(p) \/ TCPServer(p) \/ PrintStatus(p) \/ OpenBrowser(p) \/ ServeForever(p)
  \/ \E c \in Conns : Accept(p, c) \/ Respond(p, c) \/ Finish(p, c)
  \/ WithExit(p) \/ HandleKeyboardInterrupt(p) \/ HandleOSError(p)

\* what the environment does to instance p
Env(p) ==
  \/ Interrupt(p)
  \/ \E c \in Conns : HandlerFault(p, c)
  \/ \E c \in Conns : Connect(c, p)

Next ==
  \/ \E p \in Procs : Run(p)
  \/ \E p \in Procs : Env(p)
  \/ \E c \in Conns : ClientSend(c)

Spec == Init /\ [][Next]_vars

\* leaving the with statement and running the matching except clause
Unwind(p) == WithExit(p) \/ HandleKeyboardInterrupt(p) \/ HandleOSError(p)

\* the interpreter keeps unwinding an exception that is propagating; nothing
\* is assumed about the progress of clients, handlers or the browser
LiveSpec == Spec /\ \A p \in Procs : WF_vars(Unwind(p))

\* ------------------------------------------------------------ properties
HasHeader(resp, name, value) ==
  /\ \E i \in 1..Len(resp.headers) : resp.headers[i] = <<name, value>>
  /\ \A i \in 1..Len(resp.headers) : resp.headers[i][1] = name => resp.headers[i][2] = value

Isolated(resp) ==
  /\ HasHeader(resp, "Cross-Origin-Embedder-Policy", "require-corp")
  /\ HasHeader(resp, "Cross-Origin-Opener-Policy", "same-origin")

HasLine(p, text) == \E i \in 1..Len(out[p]) : out[p][i].text = text

StartupOrder == <<"chdir", "bind", "status", "browser", "serve">>

IsPrefix(s, t) == Len(s) <= Len(t) /\ SubSeq(t, 1, Len(s)) = s

\* statements of the with body (lines 25-36)
InWith == {"status", "browser", "serve", "serving", "with_exit"}

\* statements reached only once the with statement has been left, or never entered
Stopped == {"except", "done"}

\* C1: every response sent, whatever its status (200, 404, 501), carries
\* Cross-Origin-Embedder-Policy: require-corp and Cross-Origin-Opener-Policy:
\* same-origin, with exactly these values.
C1_IsolationHeaders ==
  \A c \in Conns : conn[c].resp # NoResp => Isolated(conn[c].resp)

C1_Witness ==
  \E c \in Conns : conn[c].resp.status = 404 /\ Isolated(conn[c].resp)

C3_PortInUse ==
  /\ [](\A p \in Procs : bindErr[p] = "EADDRINUSE" =>
          /\ log[p] = <<"chdir", "bind">>
          /\ pc[p] \in {"except", "done"}
          /\ ~HasLine(p, "Press Ctrl+C to stop the server")
          /\ ~HasLine(p, "Server starting at http://localhost")
          /\ \A c \in Conns : conn[c].srv # p
          /\ pc[p] = "done" =>
               /\ term[p] = SysExit(1)
               /\ out[p] = <<Line("Port is already in use.", <<PORT>>)>>)
  /\ [][\A p \in Procs :
          (pc[p] = "bind" /\ PortHeld(p) /\ bindErr'[p] # "none") =>
            /\ bindErr'[p] = "EADDRINUSE"
            /\ \E q \in Procs \ {p} :
                 sock[q] = "bound" /\ sock'[q] = "bound" /\ pc'[q] = pc[q]]_vars

C3_Witness ==
  \E p \in Procs : \E q \in Procs \ {p} :
    /\ bindErr[p] = "EADDRINUSE" /\ pc[p] = "done" /\ term[p] = SysExit(1)
    /\ pc[q] = "serving" /\ sock[q] = "bound"

\* C4 (as claimed): an interrupt delivered anywhere inside the try statement
\* (lines 23-36, browser launch included) puts the instance on the path
\* KeyboardInterrupt -> "Server stopped." -> sys.exit(0); it is never absorbed.
C4_InterruptAlwaysGraceful ==
  \A p \in Procs : sigint[p] \notin {"none", "chdir"} =>
    /\ pc[p] \in {"with_exit", "except", "done"}
    /\ pc[p] = "done" => term[p] = SysExit(0)
    /\ pc[p] # "done" => exc[p] = KeyboardInterrupt

\* C5 (as claimed): once a handler has raised an error, the instance is no
\* longer in the serve loop: the error is propagating or has ended the process.
C5_HandlerErrorTerminates ==
  \A p \in Procs : faults[p] > 0 =>
    /\ pc[p] # "serving"
    /\ pc[p] = "done" => term[p].how = "uncaught"

\* C5 (amended): an error (an Exception) raised while a request is served is
\* caught by the serve loop: the connection is closed, the instance stays in
\* serve_forever with its listener bound, no exception propagates, nothing exits.
C5_HandlerErrorAbsorbed ==
  [][\A p \in Procs : faults'[p] > faults[p] =>
       /\ pc[p] = "serving" /\ pc'[p] = "serving"
       /\ exc'[p] = NoExc
       /\ term'[p] = Running
       /\ sock'[p] = "bound"
       /\ ActiveOf(conn', p) = {}]_vars

C5_Witness ==
  \E p \in Procs : faults[p] > 0 /\ \E c \in Active(p) : conn[c].resp # NoResp

\* C6: a bind error other than "Address already in use" is re-raised unchanged:
\* no port-in-use line, no sys.exit, no status lines or serving, and the
\* process ends with that same OSError uncaught.
C6_OtherBindError ==
  \A p \in Procs : bindErr[p] \notin {"none", "ok", "EADDRINUSE"} =>
    /\ ~HasLine(p, "Port is already in use.")
    /\ term[p].how # "sys_exit"
    /\ log[p] = <<"chdir", "bind">>
    /\ pc[p] \in {"except", "done"}
    /\ exc[p] = OSError(bindErr[p])
    /\ pc[p] = "done" => term[p] = Uncaught(OSError(bindErr[p]))

C6_Witness ==
  \E p \in Procs : bindErr[p] = "EACCES" /\ pc[p] = "done" /\ term[p].how = "uncaught"

\* C7: however the browser launch ends (it returns, it raises an error, it is
\* interrupted), the instance goes on to line 36 with its listener bound, no
\* exception propagating, nothing printed and no exit taken.
C7_BrowserFrame ==
  [][\A p \in Procs : (pc[p] = "browser" /\ pc'[p] # "browser") =>
       /\ pc'[p] = "serve"
       /\ sock[p] = "bound" /\ sock'[p] = "bound"
       /\ exc'[p] = NoExc
       /\ term'[p] = Running
       /\ out'[p] = out[p]]_vars

C7_Witness ==
  \E p \in Procs : sigint[p] = "browser" /\ pc[p] = "serve" /\ sock[p] = "bound"

\* C8: an instance never has two handlers active, and while a handler is
\* active (a stalled client included) no other connection is accepted.
C8_OneRequestAtATime ==
  /\ [](\A p \in Procs : Cardinality(Active(p)) <= 1)
  /\ [][\A p \in Procs : Active(p) # {} => ActiveOf(conn', p) \subseteq Active(p)]_vars

C8_Witness ==
  \E p \in Procs, c \in Conns, d \in Conns :
    /\ c \in Active(p) /\ ~conn[c].sent
    /\ d \in Queued(p)

\* C9: the start-up steps happen in the order chdir, bind, status lines,
\* browser attempt, serve loop, each at most once; no request is accepted
\* before the serve loop is entered; after a failed bind none of the status
\* lines, the browser attempt or the serve loop occur.
C9_StartupOrder ==
  \A p \in Procs :
    /\ IsPrefix(log[p], StartupOrder)
    /\ bindErr[p] \notin {"none", "ok"} => log[p] = <<"chdir", "bind">>
    /\ sock[p] = "bound" => Len(log[p]) >= 2
    /\ HasLine(p, "Press Ctrl+C to stop the server") <=> Len(log[p]) >= 3
    /\ (Active(p) # {} \/ faults[p] > 0) => log[p] = StartupOrder
    /\ pc[p] = "serving" => log[p] = StartupOrder

C9_Witness ==
  \E p \in Procs : log[p] = StartupOrder /\ Active(p) # {}

\* C10: an instance creates at most one listening socket, only one instance
\* holds the port, no instance outside the with block holds a bound listener,
\* and an instance that has left the with block never gets back into it.
C10_ListenerLifecycle ==
  /\ [](\A p \in Procs :
          /\ created[p] <= 1
          /\ pc[p] \notin InWith => sock[p] # "bound"
          /\ sock[p] = "bound" => ~PortHeld(p))
  /\ [][\A p \in Procs : pc[p] \in Stopped => pc'[p] \in Stopped]_vars

C10_Witness ==
  \E p \in Procs :
    /\ pc[p] = "done" /\ bindErr[p] = "ok" /\ created[p] = 1 /\ sock[p] = "closed"

====
